---- MODULE Spec2Model ----
(***************************************************************************)
(* Model of src/src/extension.ts (the "budgie" editor-automation           *)
(* extension): the process-wide isRunning flag, the start / stop commands, *)
(* deactivate, and the background runLoop with its six timed steps.        *)
(*                                                                         *)
(* JavaScript runs handlers to their next await without interruption, so   *)
(* every action below is one such run: a command handler up to its first   *)
(* await (or its return), or the continuation of one await of runLoop /    *)
(* scrollUpAndDown up to the next await (or the loop's exit).              *)
(***************************************************************************)
EXTENDS Integers, Sequences, FiniteSets, Bags, TLC

----------------------------------------------------------------------------
(* Bounds of the model *)

\* start invocations in flight (suspended in file discovery) plus active loops
MaxLoops == 2
\* candidate files in the workspace
MaxFiles == 2
\* Math.random() is drawn from { k / RandDenom : k \in 0..RandDenom-1 }
RandDenom == 4
\* line counts and window sizes tried on selectRandomLines alone
MaxLines == 8
MaxWindow == 6
\* length of the file lists tried on getRandomFile alone
MaxPickLen == 3

(* Constants of the program *)

\* selectRandomLines' default lineCount (line 36)
SelectWindow == 3
\* the window of the copy step (line 122)
CopyWindow == 5
\* scrollUpAndDown's stride (lines 73, 79)
ScrollStride == 10
\* scrollUpAndDown's budget (line 153) and step delay (line 86)
ScrollDurationMs == 5000
ScrollStepMs == 200

\* getRandomFile's `undefined`; file paths are 1, 2, ...
None == 0

\* a copiedText / scratch document that does not exist (yet)
Undef == <<0>>
\* the empty string ''
EmptyText == <<>>

\* line counts of the documents of the workspaces tried
DocSizes == {1, 4, 25}
\* those of the one-file workspaces tried under concurrent starts
SharedDocSizes == {1, 4}

\* timers of a busy host: a sleep(200) that returns after half the scroll budget
SlowLag == (ScrollDurationMs \div 2) - ScrollStepMs

VARIABLES
    isRunning,    \* line 3
    pending,      \* start invocations suspended in `await getWorkspaceFiles()`
    loops,        \* bag of the runLoop instances started and not yet exited
    last,         \* the last step taken: its operation and the notification it showed
    deactivated,  \* deactivate() has run
    restarted,    \* history: a start set isRunning after the last effective stop()
    workspace,    \* host: workspace[f] is the line count of candidate file f
    timerLag,     \* host: by how many ms a sleep(200) of the scroll overruns
    clipboard,    \* host: the text on the shared clipboard (Undef: none of ours)
    probe         \* harness of the specifications of the pure functions

vars == <<isRunning, pending, loops, last, deactivated, restarted, workspace, timerLag, clipboard, probe>>

Draws == 0 .. (RandDenom - 1)

\* Math.floor(Math.random() * n), Math.random() being k / RandDenom
RandomIndex(k, n) == (k * n) \div RandDenom

Max(a, b) == IF a >= b THEN a ELSE b
Min(a, b) == IF a <= b THEN a ELSE b

----------------------------------------------------------------------------
(* Pure helpers *)

\* lines 9-20: the candidate files (paths 1..n), in discovery order
getWorkspaceFiles == [f \in 1 .. Len(workspace) |-> f]

getRandomFileNoExclude(files, exclude, k) ==
    IF Len(files) = 0 THEN None ELSE files[RandomIndex(k, Len(files)) + 1]

\* lines 22-29
getRandomFile(files, exclude, k) ==
    LET available == IF exclude # None
                     THEN SelectSeq(files, LAMBDA f : f # exclude)
                     ELSE files
    IN  IF Len(available) = 0
        THEN None
        ELSE available[RandomIndex(k, Len(available)) + 1]

\* doc.getText of lines startLine..endLine of file f
TextOf(f, startLine, endLine) == <<f, startLine, endLine>>

selectRandomLinesUnclamped(f, totalLines, lineCount, k) ==
    IF totalLines = 0
    THEN [selected |-> FALSE, startLine |-> 0, endLine |-> 0, text |-> EmptyText]
    ELSE LET maxStartLine == Max(0, totalLines - lineCount)
             randomLine   == RandomIndex(k, maxStartLine + 1)
             endLine      == randomLine + lineCount - 1
         IN  [selected |-> TRUE, startLine |-> randomLine, endLine |-> endLine,
              text |-> TextOf(f, randomLine, endLine)]

selectRandomLinesNoMax(f, totalLines, lineCount, k) ==
    IF totalLines = 0
    THEN [selected |-> FALSE, startLine |-> 0, endLine |-> 0, text |-> EmptyText]
    ELSE LET maxStartLine == totalLines - lineCount
             randomLine   == RandomIndex(k, maxStartLine + 1)
             endLine      == Min(randomLine + lineCount - 1, totalLines - 1)
         IN  [selected |-> TRUE, startLine |-> randomLine, endLine |-> endLine,
              text |-> TextOf(f, randomLine, endLine)]

\* lines 36-54, on a document of file f with totalLines lines
selectRandomLines(f, totalLines, lineCount, k) ==
    IF totalLines = 0
    THEN [selected |-> FALSE, startLine |-> 0, endLine |-> 0, text |-> EmptyText]
    ELSE LET maxStartLine == Max(0, totalLines - lineCount)
             randomLine   == RandomIndex(k, maxStartLine + 1)
             endLine      == Min(randomLine + lineCount - 1, totalLines - 1)
         IN  [selected |-> TRUE, startLine |-> randomLine, endLine |-> endLine,
              text |-> TextOf(f, randomLine, endLine)]

ScrollAdvanceNoClamp(currentLine, goingDown, lineCount) ==
    IF goingDown
    THEN [currentLine |-> currentLine + ScrollStride,
          goingDown |-> currentLine + ScrollStride < lineCount - 1]
    ELSE [currentLine |-> currentLine - ScrollStride,
          goingDown |-> currentLine - ScrollStride <= 0]

\* lines 72-84: one move of scrollUpAndDown
ScrollAdvance(currentLine, goingDown, lineCount) ==
    IF goingDown
    THEN IF currentLine + ScrollStride >= lineCount - 1
         THEN [currentLine |-> lineCount - 1, goingDown |-> FALSE]
         ELSE [currentLine |-> currentLine + ScrollStride, goingDown |-> TRUE]
    ELSE IF currentLine - ScrollStride <= 0
         THEN [currentLine |-> 0, goingDown |-> TRUE]
         ELSE [currentLine |-> currentLine - ScrollStride, goingDown |-> FALSE]

----------------------------------------------------------------------------
(* The state of one runLoop instance *)

NoEditor == [file |-> None, startLine |-> 0, endLine |-> 0, selected |-> FALSE]

\* lines 31-34: the editor showing file f
openFile(f) == [file |-> f, startLine |-> 0, endLine |-> 0, selected |-> FALSE]

\* lines 56-59: collapse the selection to its active (end) position
deselectLines(editor) ==
    [editor EXCEPT !.startLine = editor.endLine, !.selected = FALSE]

\* the step a suspension point belongs to
StepOf(pc) ==
    CASE pc \in {"open1", "sleep1"} -> 1
      [] pc \in {"open2", "sleep2"} -> 2
      [] pc \in {"open3", "clip3", "sleep3"} -> 3
      [] pc \in {"newdoc4", "show4", "edit4", "sleep4"} -> 4
      [] pc \in {"close5", "sleep5"} -> 5
      [] pc \in {"open6", "scroll6"} -> 6

\* stopAt of a loop that went on to another step after a stop()
Survived == StepOf("scroll6") + 1

\* the locals of a fresh iteration of `while (isRunning)`, suspended in
\* openFile(file1) (line 97)
Iteration(files, file1, stopAt) ==
    [pc |-> "open1", files |-> files, file1 |-> file1, file |-> file1,
     editor |-> NoEditor, copiedText |-> Undef, scratch |-> Undef,
     revealed |-> 0, currentLine |-> 0, goingDown |-> TRUE, elapsed |-> 0,
     reveals |-> 0, stopAt |-> stopAt]

ActiveLoops == BagToSet(loops)

Did(op, shown) == [op |-> op, shown |-> shown]

\* history: a loop stopped in one step that is now in another one survived
Ghost(r, r2) ==
    IF r.stopAt # 0 /\ StepOf(r2.pc) # StepOf(r.pc)
    THEN [r2 EXCEPT !.stopAt = Survived]
    ELSE r2

\* the loop goes on from r to r2
Continue(r, r2) ==
    /\ loops' = (loops (-) SetToBag({r})) (+) SetToBag({Ghost(r, r2)})
    /\ last' = Did("loop", "none")

\* what a loop that ends leaves behind in the host: where it ended, the
\* selection of its editor and its scratch document
Left(r) == [pc |-> r.pc, editor |-> r.editor, scratch |-> r.scratch]

\* `break` (or the while test failing): runLoop returns, touching nothing
Exit(r) ==
    /\ loops' = loops (-) SetToBag({r})
    /\ last' = [op |-> "exit", shown |-> "none", left |-> Left(r)]

CheckpointIgnored(r, r2) == Continue(r, r2)

CheckpointTidy(r, r2) ==
    IF isRunning THEN Continue(r, r2)
    ELSE Exit([r EXCEPT !.editor = deselectLines(r.editor), !.scratch = Undef])

\* `if (!isRunning) break;` and then on to r2
Checkpoint(r, r2) == IF isRunning THEN Continue(r, r2) ELSE Exit(r)

\* what no step of runLoop writes, and what only its clipboard write does
LoopFrame == UNCHANGED <<isRunning, pending, deactivated, restarted, workspace, timerLag, probe>>

HostFrame == LoopFrame /\ UNCHANGED clipboard

----------------------------------------------------------------------------
Init ==
    /\ isRunning = FALSE
    /\ pending = 0
    /\ loops = EmptyBag
    /\ last = Did("init", "none")
    /\ deactivated = FALSE
    /\ restarted = FALSE
    /\ workspace \in {<<>>} \cup {<<n>> : n \in SharedDocSizes}
    /\ timerLag = SlowLag
    /\ clipboard = Undef
    /\ probe = [kind |-> "idle"]

----------------------------------------------------------------------------
(* Commands (lines 157-191) *)

\* the top of `while (isRunning)` with the flag as `running` (lines 91-97):
\* the loop goes on into a fresh iteration, or ends
LoopTop(files, running, k, stopAt) ==
    LET file1 == getRandomFile(files, None, k)
    IN  IF running /\ file1 # None
        THEN SetToBag({Iteration(files, file1, stopAt)})
        ELSE EmptyBag

startCommandUnguarded ==
    /\ ~deactivated
    /\ pending + BagCardinality(loops) < MaxLoops
    /\ pending' = pending + 1
    /\ last' = Did("start", "none")
    /\ UNCHANGED <<isRunning, loops, deactivated, restarted, workspace, timerLag, clipboard, probe>>

\* lines 160-166: the start command up to `await getWorkspaceFiles()`
startCommand ==
    /\ ~deactivated
    /\ IF isRunning
       THEN /\ last' = Did("start", "alreadyRunning")
            /\ UNCHANGED pending
       ELSE /\ pending + BagCardinality(loops) < MaxLoops
            /\ pending' = pending + 1
            /\ last' = Did("start", "none")
    /\ UNCHANGED <<isRunning, loops, deactivated, restarted, workspace, timerLag, clipboard, probe>>

startResolvedUnchecked ==
    /\ pending > 0
    /\ pending' = pending - 1
    /\ \E k \in Draws :
          /\ isRunning' = TRUE
          /\ restarted' = TRUE
          /\ last' = Did("discovered", "started")
          /\ loops' = loops (+) LoopTop(getWorkspaceFiles, TRUE, k, 0)
    /\ UNCHANGED <<deactivated, workspace, timerLag, clipboard, probe>>

\* lines 166-174: file discovery returns; runLoop(files) runs up to its
\* first await
startResolved ==
    /\ pending > 0
    /\ pending' = pending - 1
    /\ LET files == getWorkspaceFiles
       IN  IF Len(files) = 0
           THEN /\ last' = Did("discovered", "noFiles")
                /\ UNCHANGED <<isRunning, loops, restarted>>
           ELSE \E k \in Draws :
                   /\ isRunning' = TRUE
                   /\ restarted' = TRUE
                   /\ last' = Did("discovered", "started")
                   /\ loops' = loops (+) LoopTop(files, TRUE, k, 0)
    /\ UNCHANGED <<deactivated, workspace, timerLag, clipboard, probe>>

\* history: stop() marks every active loop with the step it is in
MarkStopped(bag) ==
    LET S == BagToSet(bag)
        M(r) == [r EXCEPT !.stopAt = StepOf(r.pc)]
        T == {M(r) : r \in S}
    IN  [t \in T |-> LET P == {r \in S : M(r) = t}
                         RECURSIVE Sum(_)
                         Sum(Q) == IF Q = {} THEN 0
                                   ELSE LET q == CHOOSE x \in Q : TRUE
                                        IN  bag[q] + Sum(Q \ {q})
                     IN  Sum(P)]

stopCommandUnguarded ==
    /\ ~deactivated
    /\ isRunning' = FALSE
    /\ restarted' = FALSE
    /\ last' = Did("stop", "stopped")
    /\ loops' = MarkStopped(loops)
    /\ UNCHANGED <<pending, deactivated, workspace, timerLag, clipboard, probe>>

\* lines 177-184
stopCommand ==
    /\ ~deactivated
    /\ IF ~isRunning
       THEN /\ last' = Did("stop", "notRunning")
            /\ UNCHANGED <<isRunning, loops, restarted>>
       ELSE /\ isRunning' = FALSE
            /\ restarted' = FALSE
            /\ last' = Did("stop", "stopped")
            /\ loops' = MarkStopped(loops)
    /\ UNCHANGED <<pending, deactivated, workspace, timerLag, clipboard, probe>>

\* lines 189-191; the host then disposes the two commands (line 186)
deactivate ==
    /\ ~deactivated
    /\ deactivated' = TRUE
    /\ isRunning' = FALSE
    /\ last' = Did("deactivate", "none")
    /\ UNCHANGED <<pending, loops, restarted, workspace, timerLag, clipboard, probe>>

----------------------------------------------------------------------------
(* runLoop (lines 90-155), one action per await *)

\* lines 97-99: file1 is open; select lines; sleep(2000)
Opened1(r) ==
    /\ r.pc = "open1"
    /\ \E k \in Draws :
          LET sel == selectRandomLines(r.file, workspace[r.file], SelectWindow, k)
              ed  == openFile(r.file)
          IN  Continue(r, [r EXCEPT !.pc = "sleep1",
                             !.editor = IF sel.selected
                                        THEN [ed EXCEPT !.startLine = sel.startLine,
                                                        !.endLine = sel.endLine,
                                                        !.selected = TRUE]
                                        ELSE ed])
    /\ HostFrame

switchFileNoFallback(files, file1, k) == getRandomFile(files, file1, k)

\* line 106
switchFile(files, file1, k) ==
    LET file2 == getRandomFile(files, file1, k)
    IN  IF file2 # None THEN file2 ELSE file1

\* lines 100-110: checkpoint; deselect; pick file2; openFile(file2)
Slept1(r) ==
    /\ r.pc = "sleep1"
    /\ \E k \in Draws :
          Checkpoint(r, [r EXCEPT !.pc = "open2",
                                  !.editor = deselectLines(r.editor),
                                  !.file = switchFile(r.files, r.file1, k)])
    /\ HostFrame

\* line 111: file2 is open; sleep(3000)
Opened2(r) ==
    /\ r.pc = "open2"
    /\ Continue(r, [r EXCEPT !.pc = "sleep2"])
    /\ HostFrame

Slept2Excluding(r) ==
    /\ r.pc = "sleep2"
    /\ \E k \in Draws :
          LET file3 == getRandomFile(r.files, r.file1, k)
          IN  IF file3 = None
              THEN Exit(r)
              ELSE Checkpoint(r, [r EXCEPT !.pc = "open3", !.file = file3])
    /\ HostFrame

\* lines 112-121: checkpoint; pick file3; openFile(file3)
Slept2(r) ==
    /\ r.pc = "sleep2"
    /\ \E k \in Draws :
          LET file3 == getRandomFile(r.files, None, k)
          IN  IF file3 = None
              THEN Exit(r)
              ELSE Checkpoint(r, [r EXCEPT !.pc = "open3", !.file = file3])
    /\ HostFrame

\* lines 121-123: file3 is open; select 5 lines; clipboard.writeText
Opened3(r) ==
    /\ r.pc = "open3"
    /\ \E k \in Draws :
          LET sel == selectRandomLines(r.file, workspace[r.file], CopyWindow, k)
              ed  == openFile(r.file)
          IN  Continue(r, [r EXCEPT !.pc = "clip3",
                             !.copiedText = sel.text,
                             !.editor = IF sel.selected
                                        THEN [ed EXCEPT !.startLine = sel.startLine,
                                                        !.endLine = sel.endLine,
                                                        !.selected = TRUE]
                                        ELSE ed])
    /\ HostFrame

\* line 124: the clipboard is written; sleep(500)
ClipWritten(r) ==
    /\ r.pc = "clip3"
    /\ Continue(r, [r EXCEPT !.pc = "sleep3"])
    /\ clipboard' = r.copiedText
    /\ LoopFrame

Slept3Skipping(r) ==
    /\ r.pc = "sleep3"
    /\ Checkpoint(r, [r EXCEPT !.pc = "close5"])
    /\ HostFrame

\* lines 125-130: checkpoint; open an empty untitled document
Slept3(r) ==
    /\ r.pc = "sleep3"
    /\ Checkpoint(r, [r EXCEPT !.pc = "newdoc4"])
    /\ HostFrame

\* line 131: the document exists; show it
NewDocOpened(r) ==
    /\ r.pc = "newdoc4"
    /\ Continue(r, [r EXCEPT !.pc = "show4", !.scratch = EmptyText])
    /\ HostFrame

\* lines 132-134: the document is shown; insert copiedText at (0, 0)
NewDocShown(r) ==
    /\ r.pc = "show4"
    /\ Continue(r, [r EXCEPT !.pc = "edit4"])
    /\ HostFrame

EditedFromClipboard(r) ==
    /\ r.pc = "edit4"
    /\ Continue(r, [r EXCEPT !.pc = "sleep4", !.scratch = clipboard \o r.scratch])
    /\ HostFrame

\* line 135: the edit is applied; sleep(6000)
Edited(r) ==
    /\ r.pc = "edit4"
    /\ Continue(r, [r EXCEPT !.pc = "sleep4", !.scratch = r.copiedText \o r.scratch])
    /\ HostFrame

\* lines 136-141: checkpoint; revertAndCloseActiveEditor
Slept4(r) ==
    /\ r.pc = "sleep4"
    /\ Checkpoint(r, [r EXCEPT !.pc = "close5"])
    /\ HostFrame

\* line 142: the editor is closed; sleep(500)
Closed5(r) ==
    /\ r.pc = "close5"
    /\ Continue(r, [r EXCEPT !.pc = "sleep5", !.scratch = Undef])
    /\ HostFrame

\* lines 143-152: checkpoint; pick file4; openFile(file4)
Slept5(r) ==
    /\ r.pc = "sleep5"
    /\ \E k \in Draws :
          LET file4 == getRandomFile(r.files, None, k)
          IN  IF file4 = None
              THEN Exit(r)
              ELSE Checkpoint(r, [r EXCEPT !.pc = "open6", !.file = file4])
    /\ HostFrame

\* lines 68-86: the body of scrollUpAndDown's while, up to sleep(200)
ScrollBody(r) ==
    LET next == ScrollAdvance(r.currentLine, r.goingDown, workspace[r.editor.file])
    IN  [r EXCEPT !.pc = "scroll6",
                  !.revealed = r.currentLine,
                  !.reveals = r.reveals + 1,
                  !.currentLine = next.currentLine,
                  !.goingDown = next.goingDown]

NextIterationOnce(r, k) == Exit(r)

\* lines 91-97 after scrollUpAndDown has returned: `while (isRunning)`
NextIteration(r, k) ==
    LET top == LoopTop(r.files, isRunning, k, IF r.stopAt # 0 THEN Survived ELSE 0)
    IN  IF top = EmptyBag
        THEN Exit(r)
        ELSE /\ loops' = (loops (-) SetToBag({r})) (+) top
             /\ last' = Did("loop", "none")

\* lines 152-153, 61-68: file4 is open; scrollUpAndDown starts
Opened6(r) ==
    /\ r.pc = "open6"
    /\ LET r2 == [r EXCEPT !.editor = openFile(r.file), !.currentLine = 0,
                           !.goingDown = TRUE, !.elapsed = 0]
       IN  IF 0 < ScrollDurationMs /\ isRunning
           THEN Continue(r, ScrollBody(r2))
           ELSE \E k \in Draws : NextIteration(r, k)
    /\ HostFrame

ScrollSleptClockless(r) ==
    /\ r.pc = "scroll6"
    /\ IF r.elapsed < ScrollDurationMs /\ isRunning
       THEN Continue(r, ScrollBody(r))
       ELSE \E k \in Draws : NextIteration(r, k)
    /\ HostFrame

\* lines 86, 68: sleep(200) is over; scrollUpAndDown's while is tested again
ScrollSlept(r) ==
    /\ r.pc = "scroll6"
    /\ LET r2 == [r EXCEPT !.elapsed = r.elapsed + ScrollStepMs + timerLag]
       IN  IF r2.elapsed < ScrollDurationMs /\ isRunning
           THEN Continue(r, ScrollBody(r2))
           ELSE \E k \in Draws : NextIteration(r, k)
    /\ HostFrame

runLoop ==
    \E r \in ActiveLoops :
        \/ Opened1(r)
        \/ Slept1(r)
        \/ Opened2(r)
        \/ Slept2(r)
        \/ Opened3(r)
        \/ ClipWritten(r)
        \/ Slept3(r)
        \/ NewDocOpened(r)
        \/ NewDocShown(r)
        \/ Edited(r)
        \/ Slept4(r)
        \/ Closed5(r)
        \/ Slept5(r)
        \/ Opened6(r)
        \/ ScrollSlept(r)

Next ==
    \/ startCommand
    \/ startResolved
    \/ stopCommand
    \/ deactivate
    \/ runLoop

Spec == Init /\ [][Next]_vars

\* a timer so late that the scroll deadline has passed after one sleep
SlowestLag == ScrollDurationMs - ScrollStepMs

\* concurrent starts over one file that holds two different copy windows
InitPaste ==
    /\ isRunning = FALSE
    /\ pending = 0
    /\ loops = EmptyBag
    /\ last = Did("init", "none")
    /\ deactivated = FALSE
    /\ restarted = FALSE
    /\ workspace = <<CopyWindow + 1>>
    /\ timerLag = SlowestLag
    /\ clipboard = Undef
    /\ probe = [kind |-> "idle"]

SpecPaste == InitPaste /\ [][Next]_vars

----------------------------------------------------------------------------
(* Host operations that fail *)

\* the suspension points of runLoop that await a host operation: openFile
\* (lines 97, 110, 121, 152), clipboard.writeText (123), openTextDocument
\* (130), showTextDocument (131), editor.edit (132) and executeCommand (141)
HostCalls == {"open1", "open2", "open3", "clip3", "newdoc4", "show4", "edit4",
              "close5", "open6"}

hostFailsResetting ==
    \E r \in ActiveLoops :
        /\ r.pc \in HostCalls
        /\ loops' = loops (-) SetToBag({r})
        /\ last' = Did("fail", "none")
        /\ isRunning' = FALSE
        /\ UNCHANGED <<pending, deactivated, restarted, workspace, timerLag, clipboard, probe>>

\* lines 90-155: runLoop has no try/catch, so an awaited host promise that
\* rejects ends the async function; its caller (line 174) does not await it
hostFails ==
    \E r \in ActiveLoops :
        /\ r.pc \in HostCalls
        /\ loops' = loops (-) SetToBag({r})
        /\ last' = Did("fail", "none")
        /\ HostFrame

NextFail ==
    \/ startCommand
    \/ startResolved
    \/ stopCommand
    \/ deactivate
    \/ runLoop
    \/ hostFails

SpecFail == Init /\ [][NextFail]_vars

----------------------------------------------------------------------------
(* One start at a time, over every workspace of up to MaxFiles files *)

Workspaces == UNION {[1 .. n -> DocSizes] : n \in 0 .. MaxFiles}

InitCycle ==
    /\ isRunning = FALSE
    /\ pending = 0
    /\ loops = EmptyBag
    /\ last = Did("init", "none")
    /\ deactivated = FALSE
    /\ restarted = FALSE
    /\ workspace \in Workspaces
    /\ timerLag \in {0, SlowLag}
    /\ clipboard = Undef
    /\ probe = [kind |-> "idle"]

\* the start command of a user who invokes it while no earlier start is
\* still in file discovery and no stopped loop is still on its way out
startCommandAlone ==
    /\ pending = 0
    /\ loops = EmptyBag \/ isRunning
    /\ startCommand

NextCycle ==
    \/ startCommandAlone
    \/ startResolved
    \/ stopCommand
    \/ deactivate
    \/ runLoop

SpecCycle == InitCycle /\ [][NextCycle]_vars

\* timers fire and host operations complete: a suspended loop is resumed
SpecLive == InitCycle /\ [][NextCycle]_vars /\ WF_vars(runLoop)

----------------------------------------------------------------------------
(* selectRandomLines and getRandomFile on their own *)

Idle ==
    /\ isRunning = FALSE
    /\ pending = 0
    /\ loops = EmptyBag
    /\ last = Did("init", "none")
    /\ deactivated = FALSE
    /\ restarted = FALSE
    /\ workspace = <<>>
    /\ timerLag = 0
    /\ clipboard = Undef

IdleFrame ==
    UNCHANGED <<isRunning, pending, loops, last, deactivated, restarted, workspace, timerLag, clipboard>>

InitSelect ==
    /\ Idle
    /\ \E totalLines \in 0 .. MaxLines, lineCount \in 1 .. MaxWindow :
          probe = [kind |-> "select", totalLines |-> totalLines,
                   lineCount |-> lineCount, called |-> FALSE, draw |-> 0,
                   out |-> selectRandomLines(1, 0, 1, 0)]

CallSelect ==
    /\ probe.kind = "select"
    /\ \E k \in Draws :
          probe' = [probe EXCEPT !.called = TRUE, !.draw = k,
                       !.out = selectRandomLines(1, probe.totalLines, probe.lineCount, k)]
    /\ IdleFrame

SpecSelect == InitSelect /\ [][CallSelect]_vars

Paths == 1 .. MaxFiles

FileLists == UNION {[1 .. n -> Paths] : n \in 0 .. MaxPickLen}

InitPick ==
    /\ Idle
    /\ \E files \in FileLists, exclude \in {None} \cup Paths :
          probe = [kind |-> "pick", files |-> files, exclude |-> exclude,
                   called |-> FALSE, draw |-> 0, out |-> None]

CallPick ==
    /\ probe.kind = "pick"
    /\ \E k \in Draws :
          probe' = [probe EXCEPT !.called = TRUE, !.draw = k,
                       !.out = getRandomFile(probe.files, probe.exclude, k)]
    /\ IdleFrame

SpecPick == InitPick /\ [][CallPick]_vars

----------------------------------------------------------------------------
(* Claims *)

\* C1: at most one runLoop instance is active, whatever the interleaving of
\* start, stop and deactivate with the loop's suspension points.
AtMostOneLoop == BagCardinality(loops) <= 1

\* C2: a loop that was active when stop() set isRunning to false exits at its
\* next checkpoint, whatever is invoked afterwards: it never goes on to
\* another step.
StoppedLoopExits == \A r \in ActiveLoops : r.stopAt # Survived

\* C3: start() while isRunning only shows "already running": no file
\* discovery is begun, no loop is launched, isRunning stays true and the
\* running loops are left as they are.
StartWhileRunningNoop ==
    [][(isRunning /\ last'.op = "start")
          => /\ last'.shown = "alreadyRunning"
             /\ UNCHANGED <<isRunning, pending, loops>>]_vars

StartWhileRunningSeen ==
    /\ last = Did("start", "alreadyRunning")
    /\ isRunning
    /\ loops # EmptyBag

\* C4: when file discovery returns no file, start() shows the warning, does
\* not set isRunning and launches no loop.
EmptyDiscoveryNoStart ==
    [][(last'.op = "discovered" /\ Len(getWorkspaceFiles) = 0)
          => /\ last'.shown = "noFiles"
             /\ UNCHANGED <<isRunning, loops>>]_vars

EmptyDiscoverySeen ==
    /\ last = Did("discovered", "noFiles")
    /\ ~isRunning
    /\ loops = EmptyBag

\* C5: stop() while isRunning is false only shows "not running": isRunning
\* stays false and no loop is started or touched.
StopWhileStoppedNoop ==
    [][(~isRunning /\ last'.op = "stop")
          => /\ last'.shown = "notRunning"
             /\ UNCHANGED <<isRunning, pending, loops>>]_vars

StopWhileStoppedSeen ==
    /\ last = Did("stop", "notRunning")
    /\ ~isRunning

\* C6: once deactivate has run, isRunning is never true again (and so no loop
\* is launched), also when a start is still suspended in file discovery.
TeardownIsTerminal == deactivated => ~isRunning

SelectedRangeInBounds ==
    (probe.kind = "select" /\ probe.called) =>
        IF probe.totalLines = 0
        THEN ~probe.out.selected /\ probe.out.text = EmptyText
        ELSE /\ probe.out.selected
             /\ 0 <= probe.out.startLine
             /\ probe.out.startLine <= probe.out.endLine
             /\ probe.out.endLine <= Max(0, probe.totalLines - 1)
             /\ probe.out.endLine - probe.out.startLine + 1 <= probe.lineCount

SelectedPastShortDocument ==
    /\ probe.kind = "select"
    /\ probe.called
    /\ probe.lineCount > probe.totalLines
    /\ probe.totalLines > 1
    /\ probe.out.endLine = probe.totalLines - 1

\* C9: getRandomFile never returns the excluded path and returns none exactly
\* when every file has that path; with no exclude it returns an element of
\* the list, and none exactly when the list is empty.
Elements(files) == {files[i] : i \in 1 .. Len(files)}

PickRespectsExclude ==
    (probe.kind = "pick" /\ probe.called) =>
        IF probe.exclude # None
        THEN /\ probe.out # probe.exclude
             /\ probe.out = None <=> Elements(probe.files) \subseteq {probe.exclude}
             /\ probe.out # None => probe.out \in Elements(probe.files)
        ELSE /\ probe.out = None <=> probe.files = <<>>
             /\ probe.out # None => probe.out \in Elements(probe.files)

PickedAroundExcluded ==
    /\ probe.kind = "pick"
    /\ probe.called
    /\ probe.exclude \in Elements(probe.files)
    /\ probe.files[1] = probe.exclude
    /\ probe.out # None

\* C10: the file the Switch step opens differs from the Select step's file1
\* whenever the snapshot holds another path, and is file1 otherwise; the
\* Switch step ends the loop only on isRunning being false.
InSwitch(r) == r.pc \in {"open2", "sleep2"}

SwitchOpensAnotherFile ==
    /\ [](\A r \in ActiveLoops :
            InSwitch(r) =>
                /\ r.file \in Elements(r.files)
                /\ IF Elements(r.files) \ {r.file1} # {}
                   THEN r.file # r.file1
                   ELSE r.file = r.file1)
    /\ [][(isRunning /\ \E r \in ActiveLoops : r.pc = "sleep1" /\ Slept1(r))
             => \E r \in BagToSet(loops') : r.pc = "open2"]_vars

SwitchedToOther ==
    \E r \in ActiveLoops : r.pc = "sleep2" /\ r.file # r.file1

SwitchedToSame ==
    \E r \in ActiveLoops : r.pc = "sleep2" /\ r.file = r.file1 /\ Len(r.files) = 1

\* C11: within one loop the steps follow each other in the order Select,
\* Switch, Copy, Paste, Discard, Scroll, Select, ...: a step of the loop stays
\* in its step or moves to the next one, it moves on only with isRunning true,
\* and a Scroll that ends with isRunning true is followed by the Select of a
\* fresh iteration.
NextStep(n) == IF n = StepOf("scroll6") THEN StepOf("open1") ELSE n + 1

StepsInOrder ==
    [][\A r \in ActiveLoops :
          /\ \A q \in BagToSet(loops') :
                \/ q = r
                \/ StepOf(q.pc) = StepOf(r.pc)
                \/ /\ StepOf(q.pc) = NextStep(StepOf(r.pc))
                   /\ isRunning
                   /\ q.pc \in {"open1", "open2", "open3", "newdoc4", "close5", "open6"}
          /\ (r.pc = "scroll6" /\ isRunning /\ last'.op \in {"loop", "exit"})
                => \E q \in BagToSet(loops') :
                      \/ q.pc = "scroll6"
                      \/ q.pc = "open1" /\ q.editor = NoEditor /\ q.copiedText = Undef]_vars

SecondCycleBegun ==
    /\ last = Did("loop", "none")
    /\ \E r \in ActiveLoops : r.pc = "open1"

\* C12: a document of at most lineCount lines is selected whole, whatever the
\* draw; a longer one gets a selection of exactly lineCount lines.
SelectedWholeOrWindow ==
    (probe.kind = "select" /\ probe.called /\ probe.totalLines >= 1) =>
        IF probe.totalLines <= probe.lineCount
        THEN probe.out.startLine = 0 /\ probe.out.endLine = probe.totalLines - 1
        ELSE probe.out.endLine - probe.out.startLine + 1 = probe.lineCount

SelectedTwoOfFive ==
    /\ probe.kind = "select"
    /\ probe.called
    /\ probe.totalLines = 2
    /\ probe.lineCount = CopyWindow
    /\ probe.draw = RandDenom - 1
    /\ probe.out.startLine = 0
    /\ probe.out.endLine = 1

\* C13: a launched loop holds a non-empty snapshot, so none of its picks
\* without exclude finds no file, and (host operations succeeding) it ends
\* only in a step that reads isRunning as false.
EndsOnlyWhenStopped ==
    /\ [](\A r \in ActiveLoops :
            /\ Len(r.files) > 0
            /\ \A k \in Draws : getRandomFile(r.files, None, k) # None)
    /\ [][last'.op = "exit" => ~isRunning]_vars

EndedAtPickWhenStopped ==
    /\ last.op = "exit"
    /\ last.left.pc = "sleep2"
    /\ ~isRunning

\* C14: every line scrollUpAndDown reveals lies in 0 .. lineCount-1; from one
\* reveal to the next currentLine moves by the stride in the current
\* direction, is clamped to the boundary it reaches or passes, and the
\* direction is reversed exactly there.
LinesOf(r) == workspace[r.editor.file]

ScrollStaysInDocument ==
    /\ [](\A r \in ActiveLoops :
            r.pc = "scroll6" =>
                /\ LinesOf(r) >= 1
                /\ r.revealed \in 0 .. (LinesOf(r) - 1)
                /\ r.currentLine \in 0 .. (LinesOf(r) - 1))
    /\ [][\A r \in ActiveLoops, q \in BagToSet(loops') :
            (last'.op = "loop" /\ q.pc = "scroll6") =>
                /\ r.pc = "open6" =>
                      /\ q.revealed = 0
                      /\ q.currentLine = Min(ScrollStride, LinesOf(q) - 1)
                      /\ q.goingDown <=> (q.currentLine < LinesOf(q) - 1)
                /\ (r.pc = "scroll6" /\ r.goingDown) =>
                      /\ q.revealed = r.currentLine
                      /\ q.currentLine = Min(r.currentLine + ScrollStride, LinesOf(q) - 1)
                      /\ q.goingDown <=> (q.currentLine < LinesOf(q) - 1)
                /\ (r.pc = "scroll6" /\ ~r.goingDown) =>
                      /\ q.revealed = r.currentLine
                      /\ q.currentLine = Max(r.currentLine - ScrollStride, 0)
                      /\ q.goingDown <=> (q.currentLine = 0)]_vars

ScrolledBackFromEnd ==
    \E r \in ActiveLoops :
        /\ r.pc = "scroll6"
        /\ LinesOf(r) > ScrollStride + 1
        /\ r.revealed = LinesOf(r) - 1
        /\ r.currentLine = LinesOf(r) - 1 - ScrollStride
        /\ ~r.goingDown

\* C15: scrollUpAndDown reveals only after a test that found the deadline
\* ahead and isRunning true, tests once per sleep(200), returns at the first
\* test that finds the deadline reached or isRunning false, reveals at most
\* ceil(duration / 200) times, and always returns.
CeilDiv(a, b) == (a + b - 1) \div b

InScroll == \E r \in ActiveLoops : r.pc = "scroll6"

ScrollTerminates ==
    /\ [](\A r \in ActiveLoops :
            r.pc = "scroll6" =>
                /\ r.elapsed < ScrollDurationMs
                /\ r.reveals >= 1
                /\ r.reveals <= CeilDiv(ScrollDurationMs, ScrollStepMs))
    /\ [][\A r \in ActiveLoops, q \in BagToSet(loops') :
            (last'.op = "loop" /\ r.pc \in {"open6", "scroll6"} /\ q.pc = "scroll6") =>
                /\ isRunning
                /\ q.reveals = (IF r.pc = "open6" THEN 0 ELSE r.reveals) + 1
                /\ r.pc = "scroll6" => q.elapsed >= r.elapsed + ScrollStepMs]_vars
    /\ [][\A r \in ActiveLoops :
            (/\ last'.op \in {"loop", "exit"}
             /\ r.pc = "scroll6"
             /\ ~isRunning \/ r.elapsed + ScrollStepMs + timerLag >= ScrollDurationMs)
                => \A q \in BagToSet(loops') : q.pc # "scroll6"]_vars
    /\ (InScroll ~> ~InScroll)

ScrolledToDeadline ==
    /\ timerLag = 0
    /\ isRunning
    /\ \E r \in ActiveLoops :
          /\ r.pc = "scroll6"
          /\ r.reveals = CeilDiv(ScrollDurationMs, ScrollStepMs)

\* C16: the scratch document is empty when it is created, and after the
\* edit it holds exactly the text the Copy step of the same iteration of the
\* same loop captured from its own selection, whatever the clipboard holds
\* and whatever other loops and commands did in between.
InCopyOrPaste(r) == r.pc \in {"clip3", "sleep3", "newdoc4", "show4", "edit4", "sleep4"}

PastesOwnCopy ==
    \A r \in ActiveLoops :
        /\ InCopyOrPaste(r) =>
              r.copiedText = TextOf(r.editor.file, r.editor.startLine, r.editor.endLine)
        /\ r.pc \in {"show4", "edit4"} => r.scratch = EmptyText
        /\ r.pc = "sleep4" => r.scratch = r.copiedText

PastedWithOtherClipboard ==
    \E r \in ActiveLoops :
        /\ r.pc = "sleep4"
        /\ r.scratch = r.copiedText
        /\ clipboard # Undef
        /\ clipboard # r.copiedText

\* C17: a loop that finds the flag cleared at a checkpoint ends without any
\* cleanup: what it leaves behind is what it held when the pause began and the
\* clipboard is untouched; after the Select pause the selection is still
\* there, after the Paste pause the scratch document is still open with the
\* pasted text.
EndedAt(pc) == last.op = "exit" /\ last.left.pc = pc

ExitsWithoutCleanup ==
    /\ [](/\ EndedAt("sleep1") => last.left.editor.selected
          /\ EndedAt("sleep4") => last.left.scratch # Undef)
    /\ [][last'.op = "exit" =>
            /\ ~isRunning
            /\ clipboard' = clipboard
            /\ \E r \in ActiveLoops :
                  /\ loops' = loops (-) SetToBag({r})
                  /\ last'.left = Left(r)]_vars

EndedWithScratchOpen ==
    /\ EndedAt("sleep4")
    /\ last.left.scratch # Undef
    /\ last.left.scratch # EmptyText
    /\ loops = EmptyBag

EndedWithSelection ==
    /\ EndedAt("sleep1")
    /\ last.left.editor.selected
    /\ last.left.editor.startLine < last.left.editor.endLine

\* C18: a host operation that fails inside a loop ends that loop, nothing
\* takes its place and the flag keeps its value; once the flag is set with no
\* loop and no discovery left, every start is refused and no loop appears
\* until stop (or the teardown) clears the flag.
Stranded == isRunning /\ loops = EmptyBag /\ pending = 0

HostFailureLeavesRunning ==
    /\ [][last'.op = "fail" =>
            /\ isRunning' = isRunning
            /\ pending' = pending
            /\ BagCardinality(loops') = BagCardinality(loops) - 1
            /\ \E r \in ActiveLoops : loops' = loops (-) SetToBag({r})]_vars
    /\ [][Stranded =>
            /\ loops' = EmptyBag
            /\ pending' = 0
            /\ last'.op = "start" => last'.shown = "alreadyRunning" /\ isRunning'
            /\ ~isRunning' => last'.op \in {"stop", "deactivate"}]_vars

StartRefusedAfterFailure ==
    /\ Stranded
    /\ last = Did("start", "alreadyRunning")

\* C19: with host operations succeeding, whenever the flag is set at least
\* one loop is active: the flag is set only by the step of start that also
\* launches a loop, a loop ends only while the flag is cleared, and no step
\* of a loop changes the flag.
RunningHasLoop ==
    /\ [](isRunning => loops # EmptyBag)
    /\ [][(isRunning' /\ ~isRunning) \/ last' = Did("discovered", "started") =>
            /\ last' = Did("discovered", "started")
            /\ isRunning'
            /\ BagCardinality(loops') = BagCardinality(loops) + 1]_vars
    /\ [][last'.op = "exit" => ~isRunning /\ ~isRunning']_vars
    /\ [][last'.op \in {"loop", "exit"} => isRunning' = isRunning]_vars

RunningIntoNextIteration ==
    /\ isRunning
    /\ last.op = "loop"
    /\ \E r \in ActiveLoops : r.pc = "open1" /\ r.stopAt = Survived

====
